---- MODULE Spec2Model ----
(***************************************************************************)
(* Model of dashboard_resiliations_interactif_ok.py: the month resolver    *)
(* month_from_long, the cached loader load_data with its upload fallback,  *)
(* and the script body (normalisation, dimensions, sidebar, filter,        *)
(* heatmap pivot, month comparison series) that Streamlit re-executes on   *)
(* every widget interaction.                                               *)
(*                                                                         *)
(* A text is a sequence of one-character strings.  An empty spreadsheet    *)
(* cell (which read_excel delivers as NaN) is the empty sequence.          *)
(***************************************************************************)
EXTENDS Integers, Sequences, FiniteSets, TLC

VARIABLES
    val,            \* month_from_long: the argument
    res,            \* month_from_long: <<>> before the call, <<value returned>> after
    primary,        \* what pd.read_excel(DATA_PATH) yields: a table or Unreadable
    uploaded,       \* the file last supplied through st.file_uploader: <<>> (None) or <<file>>
    cache,          \* st.cache_data slot of load_data(DATA_PATH, SHEET): <<>> or <<table>>
    status,         \* how the last execution of the script ended
    uploaderShown,  \* the file_uploader widget is on the page
    sidebarShown,   \* the sidebar widgets are on the page
    df,             \* the normalised table of the last execution
    dims,           \* [YEARS, PRODS] of the last execution
    sel,            \* sidebar widget values
    df_filt,        \* filtered table
    pivot,          \* heatmap table
    series,         \* [serie_bar, serie_line, mean] of the month comparison
    xlabels         \* x argument of the three traces of fig3

vars == <<val, res, primary, uploaded, cache, status, uploaderShown,
          sidebarShown, df, dims, sel, df_filt, pivot, series, xlabels>>

scriptVars == <<primary, uploaded, cache, status, uploaderShown, sidebarShown,
                df, dims, sel, df_filt, pivot, series, xlabels>>

-----------------------------------------------------------------------------
(* Bounds of the model *)

\* largest number of rows of a spreadsheet
MaxRows == 2

-----------------------------------------------------------------------------
(* Generic helpers *)

NaN == -1

Months == 1..12

RECURSIVE SortedSeq(_)
\* sorted(...) of a set of integers
SortedSeq(S) ==
    IF S = {} THEN <<>>
    ELSE LET m == CHOOSE x \in S : \A y \in S : x <= y
         IN  <<m>> \o SortedSeq(S \ {m})

RECURSIVE SortedStrs(_, _)
\* sorted(...) of a set of product identifiers, by their rank in the order ord
SortedStrs(S, ord) ==
    IF ord = <<>> THEN <<>>
    ELSE (IF Head(ord) \in S THEN <<Head(ord)>> ELSE <<>>) \o SortedStrs(S, Tail(ord))

Range(s) == {s[i] : i \in DOMAIN s}

\* a variant of SumUn that counts the rows instead of adding their units
SumUnCountsRows(s) == Len(s)

RECURSIVE SumUn(_)
\* ["un"].sum() over a sequence of rows
SumUn(s) == IF s = <<>> THEN 0 ELSE s[1].un + SumUn(Tail(s))

RECURSIVE SumOver(_, _)
SumOver(S, f) ==
    IF S = {} THEN 0
    ELSE LET x == CHOOSE x \in S : TRUE IN f[x] + SumOver(S \ {x}, f)

RECURSIVE Gcd(_, _)
Gcd(a, b) == IF b = 0 THEN a ELSE Gcd(b, a % b)

\* the rational n/d in lowest terms (the value of a float mean)
Frac(n, d) == LET g == Gcd(n, d) IN IF g = 0 THEN <<0, 1>> ELSE <<n \div g, d \div g>>

RECURSIVE Unique(_)
\* Series.unique(): the distinct values in order of first appearance
Unique(s) ==
    IF s = <<>> THEN <<>>
    ELSE LET n == Len(s)
             front == Unique(SubSeq(s, 1, n - 1))
         IN  IF s[n] \in Range(front) THEN front ELSE Append(front, s[n])

-----------------------------------------------------------------------------
(* Month resolver *)

LABELS_MOIS_FR ==
    <<"Jan", "Fév", "Mar", "Avr", "Mai", "Juin", "Juil", "Aoû", "Sept", "Oct", "Nov", "Déc">>

LABELS_MOIS_ASCII ==
    <<"Jan", "Fev", "Mars", "Avr", "Mai", "Juin", "Juil", "Aout", "Sept", "Oct", "Nov", "Dec">>

UpperChars == <<"A", "C", "D", "E", "F", "I", "J", "L", "M", "N", "O", "P", "R",
                "S", "T", "U", "V", "X", "É", "Û">>
LowerChars == <<"a", "c", "d", "e", "f", "i", "j", "l", "m", "n", "o", "p", "r",
                "s", "t", "u", "v", "x", "é", "û">>

Digits == <<"0", "1", "2", "3", "4", "5", "6", "7", "8", "9">>

IsDigit(c) == c \in Range(Digits)

DigitVal(c) == (CHOOSE i \in DOMAIN Digits : Digits[i] = c) - 1

\* str.lower() on one character
LowerChar(c) ==
    IF c \in Range(UpperChars)
    THEN LowerChars[CHOOSE i \in DOMAIN UpperChars : UpperChars[i] = c]
    ELSE c

\* str.lower()
Lower(s) == [i \in DOMAIN s |-> LowerChar(s[i])]

UpperChar(c) ==
    IF c \in Range(LowerChars)
    THEN UpperChars[CHOOSE i \in DOMAIN LowerChars : LowerChars[i] = c]
    ELSE c

RECURSIVE LStrip(_)
LStrip(s) == IF s # <<>> /\ Head(s) = " " THEN LStrip(Tail(s)) ELSE s

RECURSIVE RStrip(_)
RStrip(s) == IF s # <<>> /\ s[Len(s)] = " " THEN RStrip(SubSeq(s, 1, Len(s) - 1)) ELSE s

\* str.strip()
Strip(s) == RStrip(LStrip(s))

\* s[:n]
Prefix(s, n) == SubSeq(s, 1, IF Len(s) < n THEN Len(s) ELSE n)

\* int(re.match(r"^(\d{1,2})", s).group(1)), or NaN when there is no match
LeadingInt(s) ==
    IF s = <<>> \/ ~IsDigit(s[1]) THEN NaN
    ELSE IF Len(s) >= 2 /\ IsDigit(s[2]) THEN 10 * DigitVal(s[1]) + DigitVal(s[2])
    ELSE DigitVal(s[1])

\* the dict of month_from_long, as a set of <<key, value>>
mapping ==
    { << <<"j", "a", "n">>, 1 >>,  << <<"f", "é", "v">>, 2 >>,  << <<"f", "e", "v">>, 2 >>,
      << <<"m", "a", "r">>, 3 >>,  << <<"a", "v", "r">>, 4 >>,  << <<"m", "a", "i">>, 5 >>,
      << <<"j", "u", "n">>, 6 >>,  << <<"j", "u", "i">>, 7 >>,  << <<"a", "o", "û">>, 8 >>,
      << <<"a", "o", "u">>, 8 >>,  << <<"s", "e", "p">>, 9 >>,  << <<"o", "c", "t">>, 10 >>,
      << <<"n", "o", "v">>, 11 >>, << <<"d", "é", "c">>, 12 >>, << <<"d", "e", "c">>, 12 >> }

\* mapping.get(base, np.nan)
MappingGet(base) ==
    IF \E p \in mapping : p[1] = base
    THEN (CHOOSE p \in mapping : p[1] = base)[2]
    ELSE NaN

\* a variant of month_from_long that looks the text up without lower-casing it
month_from_long_no_lower(v) ==
    IF v = <<>> THEN NaN
    ELSE LET s == Strip(v)
         IN  IF LeadingInt(s) # NaN THEN LeadingInt(s)
             ELSE MappingGet(Prefix(s, 3))

month_from_long(v) ==
    IF v = <<>> THEN NaN
    ELSE LET s == Strip(v)
         IN  IF LeadingInt(s) # NaN THEN LeadingInt(s)
             ELSE MappingGet(Prefix(Lower(s), 3))

-----------------------------------------------------------------------------
(* Spreadsheets *)

\* The spreadsheets of the model have the columns "Mois saisie long", "Annee saisie",
\* "PRODUIT" and "un".

\* cells of the column "Mois saisie long": a month name, a number as text, a number
\* below 1, a number above 12, and an empty cell
MoisValues == { <<"J", "a", "n">>, <<"2">>, <<"0">>, <<"1", "3">>, <<>> }

\* cells of the column "Annee saisie"
YearValues == {2006, 2007}

\* cells of the column "PRODUIT", in sorted order
ProdOrder == <<"A", "B">>

Row(m, y, p, u) == [mois |-> m, annee |-> y, produit |-> p, un |-> u]

\* rows with a month in 1..12: product "A" counts one unit a row, product "B" two
RegularRows ==
    {Row(m, y, p, IF p = "A" THEN 1 ELSE 2) :
        m \in { <<"J", "a", "n">>, <<"2">> }, y \in YearValues, p \in Range(ProdOrder)}

\* rows whose month is empty or out of range
IrregularRows == {Row(m, 2007, "A", 1) : m \in { <<"0">>, <<"1", "3">>, <<>> }}

RowValues == RegularRows \cup IrregularRows

RECURSIVE SeqsUpTo(_, _)
\* the sequences over S of length 1..n
SeqsUpTo(S, n) ==
    IF n = 0 THEN {}
    ELSE LET shorter == SeqsUpTo(S, n - 1)
         IN  {<<x>> : x \in S} \cup shorter \cup {Append(t, x) : t \in shorter, x \in S}

Tables == SeqsUpTo(RowValues, MaxRows)

\* what pd.read_excel finds: a sheet with its rows, or nothing it can read
Readable(rows) == [ok |-> TRUE, rows |-> rows]
Unreadable == [ok |-> FALSE, rows |-> <<>>]

\* a file read_excel cannot read to the end; rows is the part before the damage
Damaged(rows) == [ok |-> FALSE, rows |-> rows]

\* the files a user uploads in the model
FileA == Readable(<< Row(<<"2">>, 2006, "A", 1), Row(<<"J", "a", "n">>, 2007, "B", 2) >>)
FileB == Readable(<< Row(<<"J", "a", "n">>, 2006, "A", 1) >>)
FileBad == Damaged(<< Row(<<"J", "a", "n">>, 2006, "B", 2) >>)
UploadFiles == {FileA, FileB, FileBad}

-----------------------------------------------------------------------------
(* load_data, behind st.cache_data *)

\* a variant of load_data that keeps what could be read of a damaged upload
load_data_lenient(c, p, upl) ==
    IF c # <<>> THEN
        [outcome |-> "return", table |-> c[1], cache |-> c, widget |-> FALSE]
    ELSE IF p.ok THEN
        [outcome |-> "return", table |-> p.rows, cache |-> <<p.rows>>, widget |-> FALSE]
    ELSE IF upl = <<>> THEN
        [outcome |-> "stop", table |-> <<>>, cache |-> <<>>, widget |-> TRUE]
    ELSE
        [outcome |-> "return", table |-> upl[1].rows, cache |-> <<upl[1].rows>>, widget |-> TRUE]

\* c: the cache slot, p: the primary source, upl: the uploader's value.
\* outcome "return": a table is returned and memoized; "stop": st.stop();
\* "raise": read_excel(uploaded) raised.  widget: file_uploader was rendered.
load_data(c, p, upl) ==
    IF c # <<>> THEN
        [outcome |-> "return", table |-> c[1], cache |-> c, widget |-> FALSE]
    ELSE IF p.ok THEN
        [outcome |-> "return", table |-> p.rows, cache |-> <<p.rows>>, widget |-> FALSE]
    ELSE IF upl = <<>> THEN
        [outcome |-> "stop", table |-> <<>>, cache |-> <<>>, widget |-> TRUE]
    ELSE IF upl[1].ok THEN
        [outcome |-> "return", table |-> upl[1].rows, cache |-> <<upl[1].rows>>, widget |-> TRUE]
    ELSE
        [outcome |-> "raise", table |-> <<>>, cache |-> <<>>, widget |-> TRUE]

-----------------------------------------------------------------------------
(* Normalisation and dimensions *)

\* LABELS_MOIS_ASCII[k] with Python's list indexing (k from 0, negative k from the end);
\* <<>> stands for IndexError
PyIndex(k) ==
    IF k >= 0 /\ k < Len(LABELS_MOIS_ASCII) THEN <<LABELS_MOIS_ASCII[k + 1]>>
    ELSE IF k < 0 /\ k >= -Len(LABELS_MOIS_ASCII)
         THEN <<LABELS_MOIS_ASCII[Len(LABELS_MOIS_ASCII) + k + 1]>>
    ELSE <<>>

\* the lambda of line 63 returns f"{int(i):02d} - {name}", here <<i, name>>; "" is <<>>
LabelRaises(i) == i # NaN /\ PyIndex(i - 1) = <<>>

mois_lbl_full(i) == IF i = NaN THEN <<>> ELSE <<i, PyIndex(i - 1)[1]>>

\* month_from_long on each cell value of the column, computed once
ResolvedMonth == [v \in MoisValues |-> month_from_long(v)]

\* df["mois_num"] = df["Mois saisie long"].apply(month_from_long)
mois_num(row) == ResolvedMonth[row.mois]

\* the table with its derived columns; ok is FALSE when line 63 raises
Normalise(rows) ==
    IF \E i \in DOMAIN rows : LabelRaises(mois_num(rows[i]))
    THEN [ok |-> FALSE, df |-> <<>>]
    ELSE [ok |-> TRUE,
          df |-> [i \in DOMAIN rows |->
                    [mois |-> rows[i].mois, annee |-> rows[i].annee,
                     produit |-> rows[i].produit, un |-> rows[i].un,
                     mois_num |-> mois_num(rows[i]),
                     mois_lbl_full |-> mois_lbl_full(mois_num(rows[i]))]]]

YEARS(d) == SortedSeq({d[i].annee : i \in DOMAIN d})

PRODS(d) == SortedStrs({d[i].produit : i \in DOMAIN d}, ProdOrder)

-----------------------------------------------------------------------------
(* Sidebar *)

\* the values the four widgets take when first rendered
Defaults(Y, P) ==
    [prods      |-> Range(P),
     year_bar   |-> Y[Len(Y)],
     year_line  |-> IF Len(Y) > 1 THEN Y[Len(Y) - 1] ELSE Y[1],
     mean_years |-> {y \in {2005, 2006} : y \in Range(Y)}]

\* a multiselect after a click on option x: x is added, or removed if it was selected
Toggle(S, x) == IF x \in S THEN S \ {x} ELSE S \cup {x}

NoSel == [prods |-> {}, year_bar |-> 0, year_line |-> 0, mean_years |-> {}]

-----------------------------------------------------------------------------
(* Filter and aggregations *)

\* a variant of Filtered in which an empty selection excludes every row
FilteredEmptyExcludes(d, sel_prods) == SelectSeq(d, LAMBDA r : r.produit \in sel_prods)

\* df[df["PRODUIT"].astype(str).isin(sel_prods)] if sel_prods else df.copy()
Filtered(d, sel_prods) ==
    IF sel_prods # {} THEN SelectSeq(d, LAMBDA r : r.produit \in sel_prods)
    ELSE d

\* d.groupby("mois_num")["un"].sum(): one entry per month value that occurs in d;
\* a row whose key is NaN belongs to no group
GroupByMonth(d) ==
    [m \in {d[i].mois_num : i \in DOMAIN d} \ {NaN} |->
        SumUn(SelectSeq(d, LAMBDA r : r.mois_num = m))]

\* a variant of GroupByMonthYear that keeps the groups whose month is NaN
GroupByMonthYearKeepNaN(d) ==
    [k \in {<<d[i].mois_num, d[i].annee>> : i \in DOMAIN d} |->
        SumUn(SelectSeq(d, LAMBDA r : r.mois_num = k[1] /\ r.annee = k[2]))]

\* d.groupby(["mois_num","Annee saisie"])["un"].sum(): one entry per pair that occurs
GroupByMonthYear(d) ==
    [k \in {<<d[i].mois_num, d[i].annee>> : i \in {j \in DOMAIN d : d[j].mois_num # NaN}} |->
        SumUn(SelectSeq(d, LAMBDA r : r.mois_num = k[1] /\ r.annee = k[2]))]

\* .reindex(range(1,13), fill_value=fill) of a month-indexed series
Reindex(g, fill) == [m \in Months |-> IF m \in DOMAIN g THEN g[m] ELSE fill]

\* .unstack("Annee saisie").reindex(range(1,13)): columns are the years of the
\* groups, rows are months 1..12, a cell without a group is NaN
Pivot(d) ==
    LET g    == GroupByMonthYear(d)
        cols == SortedSeq({k[2] : k \in DOMAIN g})
    IN  [columns |-> cols,
         rows    |-> [m \in Months |->
                        [y \in Range(cols) |->
                            IF <<m, y>> \in DOMAIN g THEN g[<<m, y>>] ELSE NaN]]]

\* pivot.fillna(0)
FillNa(v) == IF v = NaN THEN 0 ELSE v

\* d[d["Annee saisie"]==year].groupby("mois_num")["un"].sum().reindex(range(1,13), fill_value=0)
SerieYear(d, year) ==
    Reindex(GroupByMonth(SelectSeq(d, LAMBDA r : r.annee = year)), 0)

\* .groupby("mois_num").mean() of the (month, year) sums: per month that has a
\* group, the mean of its groups' sums
MeanByMonth(g) ==
    [m \in {k[1] : k \in DOMAIN g} |->
        LET ks == {k \in DOMAIN g : k[1] = m}
        IN  Frac(SumOver(ks, g), Cardinality(ks))]

\* d[d["Annee saisie"].isin(years)].groupby(["Annee saisie","mois_num"])["un"].sum()
\*   .groupby("mois_num").mean().reindex(range(1,13), fill_value=0)
Mean(d, years) ==
    Reindex(MeanByMonth(GroupByMonthYear(SelectSeq(d, LAMBDA r : r.annee \in years))),
            <<0, 1>>)

\* df["mois_lbl_full"].unique()
XLabels(d) == Unique([i \in DOMAIN d |-> d[i].mois_lbl_full])

NoPivot == [columns |-> <<>>, rows |-> <<>>]
NoSeries == [serie_bar |-> <<>>, serie_line |-> <<>>, mean |-> <<>>]

-----------------------------------------------------------------------------
(* One execution of the script, top to bottom *)

\* upl: the uploader's value in this execution; w: the sidebar's widget values,
\* used when the sidebar was on the page (a widget first rendered takes its default)
RunScript(upl, w) ==
    LET ld == load_data(cache, primary, upl)
        t  == Normalise(ld.table)
    IN  /\ uploaded' = upl
        /\ cache' = ld.cache
        /\ uploaderShown' = ld.widget
        /\ UNCHANGED <<primary, val, res>>
        /\ IF ld.outcome # "return" \/ ~t.ok
           THEN /\ status' = IF ld.outcome = "stop" THEN "waiting"
                             ELSE IF ld.outcome = "raise" THEN "load_error"
                             ELSE "error_line_63"
                /\ sidebarShown' = FALSE
                /\ df' = <<>>
                /\ dims' = [YEARS |-> <<>>, PRODS |-> <<>>]
                /\ sel' = NoSel
                /\ df_filt' = <<>>
                /\ pivot' = NoPivot
                /\ series' = NoSeries
                /\ xlabels' = <<>>
           ELSE LET Y    == YEARS(t.df)
                    P    == PRODS(t.df)
                    s    == IF sidebarShown THEN w ELSE Defaults(Y, P)
                    filt == Filtered(t.df, s.prods)
                IN  /\ sidebarShown' = TRUE
                    /\ df' = t.df
                    /\ dims' = [YEARS |-> Y, PRODS |-> P]
                    /\ sel' = s
                    /\ df_filt' = filt
                    /\ pivot' = Pivot(filt)
                    /\ IF s.mean_years = {}
                       THEN \* min(sel_mean_years) raises ValueError
                            /\ status' = "error_line_98"
                            /\ series' = NoSeries
                            /\ xlabels' = <<>>
                       ELSE /\ status' = "done"
                            /\ series' = [serie_bar  |-> SerieYear(filt, s.year_bar),
                                          serie_line |-> SerieYear(filt, s.year_line),
                                          mean       |-> Mean(filt, s.mean_years)]
                            /\ xlabels' = XLabels(t.df)

-----------------------------------------------------------------------------
(* Actions: the first execution, and one execution per interaction *)

Start ==
    /\ status = "not_run"
    /\ RunScript(<<>>, NoSel)

Rerun ==
    /\ status # "not_run"
    /\ RunScript(uploaded, sel)

Upload ==
    /\ uploaderShown
    /\ \E f \in UploadFiles :
          /\ uploaded # <<f>>
          /\ RunScript(<<f>>, sel)

RemoveUpload ==
    /\ uploaderShown
    /\ uploaded # <<>>
    /\ RunScript(<<>>, sel)

SelectProds ==
    /\ sidebarShown
    /\ \E p \in Range(dims.PRODS) :
          RunScript(uploaded, [sel EXCEPT !.prods = Toggle(@, p)])

SelectYearBar ==
    /\ sidebarShown
    /\ \E y \in Range(dims.YEARS) :
          /\ y # sel.year_bar
          /\ RunScript(uploaded, [sel EXCEPT !.year_bar = y])

SelectYearLine ==
    /\ sidebarShown
    /\ \E y \in Range(dims.YEARS) :
          /\ y # sel.year_line
          /\ RunScript(uploaded, [sel EXCEPT !.year_line = y])

SelectMeanYears ==
    /\ sidebarShown
    /\ \E y \in Range(dims.YEARS) :
          RunScript(uploaded, [sel EXCEPT !.mean_years = Toggle(@, y)])

Init ==
    /\ val = <<>>
    /\ res = <<>>
    /\ primary \in {Readable(t) : t \in Tables} \cup {Unreadable}
    /\ uploaded = <<>>
    /\ cache = <<>>
    /\ status = "not_run"
    /\ uploaderShown = FALSE
    /\ sidebarShown = FALSE
    /\ df = <<>>
    /\ dims = [YEARS |-> <<>>, PRODS |-> <<>>]
    /\ sel = NoSel
    /\ df_filt = <<>>
    /\ pivot = NoPivot
    /\ series = NoSeries
    /\ xlabels = <<>>

Next ==
    \/ Start
    \/ Rerun
    \/ Upload
    \/ RemoveUpload
    \/ SelectProds
    \/ SelectYearBar
    \/ SelectYearLine
    \/ SelectMeanYears

Spec == Init /\ [][Next]_vars

-----------------------------------------------------------------------------
(* The month resolver on its own: one call of month_from_long per behaviour *)

\* the 12 canonical French month abbreviations, accented and unaccented
Canonical ==
    << { <<"J", "a", "n">> },
       { <<"F", "é", "v">>, <<"F", "e", "v">> },
       { <<"M", "a", "r">> },
       { <<"A", "v", "r">> },
       { <<"M", "a", "i">> },
       { <<"J", "u", "n">> },
       { <<"J", "u", "i", "l">> },
       { <<"A", "o", "û">>, <<"A", "o", "u">> },
       { <<"S", "e", "p">> },
       { <<"O", "c", "t">> },
       { <<"N", "o", "v">> },
       { <<"D", "é", "c">>, <<"D", "e", "c">> } >>

\* a word in every letter case
CaseVariants(w) ==
    {[i \in DOMAIN w |-> IF i \in U THEN UpperChar(w[i]) ELSE LowerChar(w[i])] :
        U \in SUBSET DOMAIN w}

CanonicalVariants(k) == UNION {CaseVariants(w) : w \in Canonical[k]}

Juin == <<"j", "u", "i", "n">>

\* other cell values: long names, labels of the dashboard, numbers as text,
\* surrounding blanks, texts that are no month, the empty text
OtherTexts ==
    CaseVariants(Juin) \cup
    { <<"J", "u", "i", "l", "l", "e", "t">>, <<"S", "e", "p", "t">>, <<"M", "a", "r", "s">>,
      <<"A", "o", "u", "t">>, <<"J", "a", "n", "v", "i", "e", "r">>,
      <<"1">>, <<"7">>, <<"0">>, <<"0", "7">>, <<"1", "2">>, <<"1", "3">>, <<"9", "9">>,
      <<"1", "2", "3">>, <<"1", " ", "j", "a", "n">>, <<"3", "x">>,
      <<" ", "3">>, <<"3", " ">>, <<" ", "J", "a", "n", " ">>, <<" ", "j", "a", "n">>,
      <<" ", " ", "d", "é", "c">>, <<"x", "y", "z">>, <<"j", "a">>, <<"j">>, <<" ">>,
      <<"j", "a", " ", "n">>, <<"x", "1", "2">>, <<>> }

MonthTexts == UNION {CanonicalVariants(k) : k \in Months} \cup OtherTexts

InitResolver ==
    /\ val \in MonthTexts
    /\ res = <<>>
    /\ primary = Unreadable
    /\ uploaded = <<>>
    /\ cache = <<>>
    /\ status = "not_run"
    /\ uploaderShown = FALSE
    /\ sidebarShown = FALSE
    /\ df = <<>>
    /\ dims = [YEARS |-> <<>>, PRODS |-> <<>>]
    /\ sel = NoSel
    /\ df_filt = <<>>
    /\ pivot = NoPivot
    /\ series = NoSeries
    /\ xlabels = <<>>

Resolve ==
    /\ res = <<>>
    /\ res' = <<month_from_long(val)>>
    /\ UNCHANGED <<val, scriptVars>>

NextResolver == Resolve

SpecResolver == InitResolver /\ [][NextResolver]_vars

-----------------------------------------------------------------------------
(* Properties *)

\* the raw rows of a normalised table
RawRows(d) ==
    [i \in DOMAIN d |-> Row(d[i].mois, d[i].annee, d[i].produit, d[i].un)]

\* the sum of units of the rows of d with resolved month m and year y
UnitsOf(d, m, y) ==
    LET idx == {i \in DOMAIN d : d[i].mois_num = m /\ d[i].annee = y}
    IN  SumOver(idx, [i \in idx |-> d[i].un])

\* the label of month k on the x axis
MonthLabel(k) == <<k, LABELS_MOIS_ASCII[k]>>

\* C1: in every finished execution, for every month m the average series is the mean,
\* over all selected averaging years, of the year's summed units for month m, a year
\* without a row in month m counting as a sum of zero.
C1_MeanOverAllSelectedYears ==
    status = "done" =>
        \A m \in Months :
            series.mean[m] =
                Frac(SumOver(sel.mean_years, [y \in sel.mean_years |-> UnitsOf(df_filt, m, y)]),
                     Cardinality(sel.mean_years))

\* C2: whenever a table is loaded and the sidebar offers its filters, whatever the
\* selection (an empty set of averaging years included), the month comparison
\* completes and its bar, line and average series have one value per month 1..12.
C2_SeriesAlwaysComplete ==
    sidebarShown =>
        /\ status = "done"
        /\ DOMAIN series.serie_bar = Months
        /\ DOMAIN series.serie_line = Months
        /\ DOMAIN series.mean = Months

\* C3: the filtered table is the whole table when no product is selected; otherwise
\* it holds exactly the rows whose product is selected, in their order, and is never
\* longer than the table.
C3_FilterStage ==
    sidebarShown =>
        LET keep == SortedSeq({i \in DOMAIN df : df[i].produit \in sel.prods})
        IN  /\ sel.prods = {} => df_filt = df
            /\ sel.prods # {} => df_filt = [j \in DOMAIN keep |-> df[keep[j]]]
            /\ Len(df_filt) <= Len(df)

\* C3 witness: no product is selected and the table of two products is kept whole
C3_Witness ==
    /\ sidebarShown
    /\ sel.prods = {}
    /\ Len(dims.PRODS) = 2
    /\ df_filt = df

\* C4 as stated: the heatmap's columns are exactly the years that occur in the
\* filtered rows.
C4_ColumnsAreYearsOfFilteredRows ==
    sidebarShown =>
        Range(pivot.columns) = {df_filt[i].annee : i \in DOMAIN df_filt}

\* C4 amended: the heatmap's columns are exactly the years of the filtered rows
\* whose month is resolved (not null), whether or not its value lies in 1..12.
C4_ColumnsAreYearsOfResolvedRows ==
    sidebarShown =>
        Range(pivot.columns) =
            {df_filt[i].annee : i \in {j \in DOMAIN df_filt : df_filt[j].mois_num # NaN}}

\* C4 witness: a filtered row with an unresolved month whose year is no column, beside
\* a column for a row with a resolved month
C4_Witness ==
    /\ sidebarShown
    /\ pivot.columns # <<>>
    /\ \E i \in DOMAIN df_filt :
          /\ df_filt[i].mois_num = NaN
          /\ df_filt[i].annee \notin Range(pivot.columns)

\* C5: the heatmap has the 12 rows of months 1..12, and each cell handed to the chart
\* (before the sign flip) is the sum of units of the filtered rows of that month and
\* year, 0 when there is none.
C5_HeatmapCells ==
    sidebarShown =>
        /\ DOMAIN pivot.rows = Months
        /\ \A m \in Months :
              /\ DOMAIN pivot.rows[m] = Range(pivot.columns)
              /\ \A y \in Range(pivot.columns) :
                    FillNa(pivot.rows[m][y]) = UnitsOf(df_filt, m, y)

\* C5 witness: a cell that adds up two rows (1 + 2 units) beside an empty cell
C5_Witness ==
    /\ sidebarShown
    /\ \E m \in Months : \E y \in Range(pivot.columns) :
          /\ FillNa(pivot.rows[m][y]) = 3
          /\ Cardinality({i \in DOMAIN df_filt : df_filt[i].mois_num = m}) = 2
    /\ \E m \in Months : \E y \in Range(pivot.columns) : pivot.rows[m][y] = NaN

\* a row whose month is unresolved or outside 1..12
Irregular(row) == month_from_long(row.mois) \notin Months

\* C6: a loaded table with a row whose month is unresolved or out of range is still
\* processed without an error at the month label, and such a row adds to no heatmap
\* cell and to no value of the bar and line series.  (The failure of line 98 does not
\* depend on the rows' months and is left out here.)
C6_IrregularMonthsTolerated ==
    (cache # <<>> /\ \E i \in DOMAIN cache[1] : Irregular(cache[1][i])) =>
        /\ status # "error_line_63"
        /\ sidebarShown =>
              \A m \in Months : \A y \in Range(pivot.columns) :
                  FillNa(pivot.rows[m][y]) = UnitsOf(df_filt, m, y)
        /\ status = "done" =>
              \A m \in Months :
                  /\ series.serie_bar[m] = UnitsOf(df_filt, m, sel.year_bar)
                  /\ series.serie_line[m] = UnitsOf(df_filt, m, sel.year_line)

\* the tables read_excel returns in full
CompleteTables == {f.rows : f \in {g \in UploadFiles \cup {primary} : g.ok}}

NothingComputed ==
    /\ ~sidebarShown
    /\ df = <<>>
    /\ dims = [YEARS |-> <<>>, PRODS |-> <<>>]
    /\ df_filt = <<>>
    /\ pivot = NoPivot
    /\ series = NoSeries
    /\ xlabels = <<>>

\* the state part of C7
LoadGate ==
    /\ (status # "not_run" /\ cache = <<>> /\ ~primary.ok /\ uploaded = <<>>)
          => status = "waiting"
    /\ (status # "not_run" /\ cache = <<>> /\ ~primary.ok /\ uploaded # <<>>)
          => (status = "load_error" /\ ~uploaded[1].ok)
    /\ status \in {"not_run", "waiting", "load_error"} => (NothingComputed /\ cache = <<>>)
    /\ cache # <<>> => cache[1] \in CompleteTables
    /\ (df # <<>> \/ sidebarShown) => (cache # <<>> /\ RawRows(df) = cache[1])

\* C7: nothing is extracted, filtered or aggregated unless a complete table was
\* obtained: without primary source and without upload the execution halts waiting,
\* and leaves that state only with a file supplied; an unreadable upload ends in a
\* load error; the cache never holds anything but a complete table.
C7_NoStageWithoutDataset ==
    /\ []LoadGate
    /\ [][(status = "waiting" /\ status' # "waiting") => uploaded' # <<>>]_vars

\* C7 witness: an unreadable upload has ended in the load error, nothing computed
C7_Witness ==
    /\ status = "load_error"
    /\ uploaded = <<FileBad>>
    /\ cache = <<>>
    /\ NothingComputed

\* C8: once a table obtained through the upload fallback is in use, the table of
\* every later execution is that of the file supplied last.
C8_ReuploadReplacesDataset ==
    (df # <<>> /\ ~primary.ok /\ uploaded # <<>> /\ uploaded[1].ok) =>
        RawRows(df) = uploaded[1].rows

\* the keys of the resolver's table
TableKeys == {p[1] : p \in mapping}

StartsWithDigit(s) == s # <<>> /\ IsDigit(s[1])

\* the part of C9 that is not amended: the canonical abbreviations in any case resolve
\* to their month, and "Juin" in any case resolves to 7
C9_Abbreviations ==
    res # <<>> =>
        /\ \A k \in Months : val \in CanonicalVariants(k) => res[1] = k
        /\ Lower(val) = Juin => res[1] = 7

\* C9 as stated: the abbreviations resolve to their month, "Juin" to 7, and any text
\* whose lower-cased first three characters are not in the table is unresolved.
C9_ResolverAsStated ==
    /\ C9_Abbreviations
    /\ (res # <<>> /\ Prefix(Lower(val), 3) \notin TableKeys) => res[1] = NaN

\* C9 amended: the abbreviations resolve to their month, "Juin" to 7; a text that,
\* stripped of surrounding blanks, starts with a digit resolves to the integer of its
\* first one or two digits; any other text whose lower-cased first three characters
\* after stripping are not in the table is unresolved.
C9_ResolverAmended ==
    /\ C9_Abbreviations
    /\ res # <<>> =>
          LET s == Strip(val)
          IN  /\ StartsWithDigit(s) => res[1] = LeadingInt(s)
              /\ (~StartsWithDigit(s) /\ Prefix(Lower(s), 3) \notin TableKeys)
                    => res[1] = NaN

\* C9 witness: an accented abbreviation in upper case has been resolved to its month
C9_Witness ==
    /\ val = <<"F", "É", "V">>
    /\ res = <<2>>

\* C10: in every finished execution the x axis of the month comparison has 12 labels,
\* the k-th being the label of month k.
C10_LabelsMatchMonths ==
    status = "done" =>
        /\ Len(xlabels) = 12
        /\ \A k \in DOMAIN xlabels : xlabels[k] = MonthLabel(k)

====
